---------------------------- MODULE Spec2Model ----------------------------
(***************************************************************************)
(* A model of Packages/cdms2/Lib/gsRegrid.py: the coordinate normaliser    *)
(* (getTensorProduct, makeCurvilinear) and the Regrid operator, a ctypes   *)
(* binding over the libcf regridding kernels.                              *)
(*                                                                         *)
(* Conventions.  A numpy array is a record [shape, data]: data is the      *)
(* array in C order.  Array elements and every real number are exact       *)
(* rationals <<n, d>>, d > 0, in lowest terms, so floating-point rounding  *)
(* is not modelled.  Python indices are 0-based and are kept 0-based in    *)
(* operator parameters; TLA+ sequences are 1-based.  A raised exception is *)
(* the string naming its class, "none" when nothing was raised.            *)
(***************************************************************************)
EXTENDS Integers, Sequences, FiniteSets, TLC

VARIABLES tp, mc, user, self, lib, call

vars == <<tp, mc, user, self, lib, call>>

\* The value of a variable a specification does not use.
Unused == [unused |-> TRUE]

\* The sequence f as an explicit tuple: every element is evaluated where the
\* sequence is built.
Tup(f) == f \o <<>>

-----------------------------------------------------------------------------
(* Bounds of the model. *)

\* Longest axis, and largest extent of an array along one dimension.
MaxLen == 2
\* Axis values are drawn from 1..MaxVal.
MaxVal == 3
\* Most dimensions of a grid handed to getTensorProduct.
MaxTPDims == 3
\* Most descriptors in a list handed to makeCurvilinear, and the largest
\* dimensionality of one descriptor.
MaxN == 3
MaxRank == 3

-----------------------------------------------------------------------------
(* Exact rational arithmetic. *)

RECURSIVE GCD(_, _)
GCD(a, b) == IF b = 0 THEN a ELSE GCD(b, a % b)

Abs(n) == IF n < 0 THEN -n ELSE n

\* The pair q = <<n, d>>, d > 0, in lowest terms.
Norm(q) ==
  LET gcd == GCD(Abs(q[1]), q[2])
  IN  <<q[1] \div gcd, q[2] \div gcd>>

\* n/d in lowest terms with a positive denominator (d # 0).
Rat(n, d) == IF d < 0 THEN Norm(<<-n, -d>>) ELSE Norm(<<n, d>>)

RInt(n) == <<n, 1>>
RAdd(a, b) == Norm(<<a[1] * b[2] + b[1] * a[2], a[2] * b[2]>>)
RSub(a, b) == Norm(<<a[1] * b[2] - b[1] * a[2], a[2] * b[2]>>)
RMul(a, b) == Norm(<<a[1] * b[1], a[2] * b[2]>>)
\* a / b, b # 0.
RDiv(a, b) == Rat(a[1] * b[2], a[2] * b[1])
RLt(a, b) == a[1] * b[2] < b[1] * a[2]
RLe(a, b) == a[1] * b[2] <= b[1] * a[2]
RAbs(a) == <<Abs(a[1]), a[2]>>
\* The largest integer not above a (\div rounds towards minus infinity).
RFloor(a) == a[1] \div a[2]
RMax(a, b) == IF RLt(a, b) THEN b ELSE a

-----------------------------------------------------------------------------
(* numpy, as far as gsRegrid.py uses it. *)

\* The product of the entries k..Len(s) of s.
RECURSIVE ProdFrom(_, _)
ProdFrom(s, k) == IF k > Len(s) THEN 1 ELSE s[k] * ProdFrom(s, k + 1)

Prod(s) == ProdFrom(s, 1)

\* numpy.ones(shape): ones([]) is a 0-d array holding a single 1.
Ones(shape) ==
  [shape |-> shape, data |-> Tup([k \in 1..Prod(shape) |-> RInt(1)])]

\* numpy.outer(a, b): both arguments are flattened; out[i, j] = a[i] * b[j].
Outer(a, b) ==
  LET na == Len(a.data)
      nb == Len(b.data)
  IN  [shape |-> <<na, nb>>,
       data  |-> Tup([k \in 1..(na * nb) |->
                        RMul(a.data[((k - 1) \div nb) + 1],
                             b.data[((k - 1) % nb) + 1])])]

\* ndarray.reshape(dims): the same data in C order; ValueError when sizes differ.
CanReshape(a, dims) == Prod(dims) = Len(a.data)
Reshape(a, dims) == [shape |-> dims, data |-> a.data]

\* The C-order offset (0-based) of the multi-index idx (0-based entries) in an
\* array of shape dims: how a[j_0, ..., j_{N-1}] is addressed.
RECURSIVE FlatIndexFrom(_, _, _, _)
FlatIndexFrom(idx, dims, k, acc) ==
  IF k > Len(dims) THEN acc
  ELSE FlatIndexFrom(idx, dims, k + 1, acc * dims[k] + idx[k])

FlatIndex(idx, dims) == FlatIndexFrom(idx, dims, 1, 0)

\* The element of array a at the multi-index idx.
Elem(a, idx) == a.data[FlatIndex(idx, a.shape) + 1]

\* The largest entry of a sequence of naturals (0 for the empty sequence).
SeqMax(s) == IF s = <<>> THEN 0
             ELSE CHOOSE m \in {s[k] : k \in 1..Len(s)} :
                    \A k \in 1..Len(s) : s[k] <= m

\* Every multi-index of an array of shape dims.
MultiIndices(dims) ==
  {idx \in [1..Len(dims) -> 0..SeqMax(dims)] :
     \A k \in 1..Len(dims) : idx[k] < dims[k]}

-----------------------------------------------------------------------------
(* getTensorProduct(axis, dim, dims), lines 78-88. *)

\* A plausible slip: the axis is placed before the leading block of ones.
getTensorProductSwapped(axis, dim, dims) ==
  Reshape(Outer(Outer(axis, Ones(SubSeq(dims, 1, dim))),
                Ones(SubSeq(dims, dim + 2, Len(dims)))),
          dims)

\* dims[:dim] is SubSeq(dims, 1, dim) and dims[dim+1:] is
\* SubSeq(dims, dim + 2, Len(dims)).  The product has prod(dims) elements
\* whenever len(axis) = dims[dim], so the reshape succeeds.
getTensorProduct(axis, dim, dims) ==
  Reshape(Outer(Outer(Ones(SubSeq(dims, 1, dim)), axis),
                Ones(SubSeq(dims, dim + 2, Len(dims)))),
          dims)

-----------------------------------------------------------------------------
(* Specification SpecTP: getTensorProduct applied to every axis, position *)
(* and grid size within the bounds.                                        *)

SeqsOf(S, lo, hi) == UNION {[1..n -> S] : n \in lo..hi}

TPInputs ==
  {[axis |-> [shape |-> <<Len(a)>>, data |-> [k \in 1..Len(a) |-> RInt(a[k])]],
    dim  |-> d,
    dims |-> ds] :
     ds \in SeqsOf(1..MaxLen, 1, MaxTPDims),
     d \in 0..(MaxTPDims - 1),
     a \in SeqsOf(1..MaxVal, 1, MaxLen)}

InitTP ==
  /\ tp \in {[in |-> i, called |-> FALSE, out |-> Unused] :
               i \in {x \in TPInputs :
                        /\ x.dim < Len(x.dims)
                        /\ Len(x.axis.data) = x.dims[x.dim + 1]}}
  /\ mc = Unused
  /\ user = Unused
  /\ self = Unused
  /\ lib = Unused
  /\ call = Unused

CallGetTensorProduct ==
  /\ ~tp.called
  /\ tp' = [tp EXCEPT !.called = TRUE,
                      !.out = getTensorProduct(tp.in.axis, tp.in.dim, tp.in.dims)]
  /\ UNCHANGED <<mc, user, self, lib, call>>

NextTP == CallGetTensorProduct

SpecTP == InitTP /\ [][NextTP]_vars

\* C10: getTensorProduct(axis, i, dims) has shape dims and its value at every
\* multi-index (j_0, ..., j_{N-1}) is axis[j_i]: it varies along dimension i
\* only and is replicated along every other dimension.
C10_TensorProductReplicatesAxis ==
  (tp # Unused /\ tp.called) =>
     /\ tp.out.shape = tp.in.dims
     /\ Len(tp.out.data) = Prod(tp.in.dims)
     /\ \A idx \in MultiIndices(tp.in.dims) :
          Elem(tp.out, idx) = tp.in.axis.data[idx[tp.in.dim + 1] + 1]

\* A 3-d product of a two-point axis in the middle dimension, with more than
\* one point before and after it.
C10_Witness ==
  /\ tp # Unused
  /\ tp.called
  /\ tp.in.dims = <<2, 2, 2>>
  /\ tp.in.dim = 1
  /\ tp.in.axis.data[1] # tp.in.axis.data[2]

-----------------------------------------------------------------------------
(* makeCurvilinear(coords), lines 90-130.  coords is the caller's list: the *)
(* function assigns to its elements, so the result carries the list as it  *)
(* stands when the function returns or raises.                              *)

\* The first loop, lines 101-113, from index i (0-based) on.  coord.shape[k]
\* raises IndexError when k is not below the descriptor's dimensionality
\* (i - count1DAxes is never negative).
RECURSIVE MCDims(_, _, _, _)
MCDims(coords, i, count1DAxes, dims) ==
  IF i >= Len(coords) THEN [err |-> "none", dims |-> dims]
  ELSE LET shape == coords[i + 1].shape
           nd    == Len(shape)
       IN  IF nd = 1
             THEN MCDims(coords, i + 1, count1DAxes + 1, Append(dims, shape[1]))
           ELSE IF nd = Len(coords)
             THEN MCDims(coords, i + 1, count1DAxes, Append(dims, shape[i + 1]))
           ELSE IF i - count1DAxes >= nd
             THEN [err |-> "IndexError", dims |-> dims]
           ELSE MCDims(coords, i + 1, count1DAxes,
                       Append(dims, shape[i - count1DAxes + 1]))

\* The second loop, lines 115-129, from index i (0-based) on.  len(coords[0])
\* is the first extent of coords[0] as the list holds it at that moment.
RECURSIVE MCExpand(_, _, _)
MCExpand(coords, i, dims) ==
  IF i >= Len(coords) THEN [err |-> "none", coords |-> coords]
  ELSE LET ndims == Len(coords)
           nd    == Len(coords[i + 1].shape)
       IN  IF nd = ndims
             THEN MCExpand(coords, i + 1, dims)
           ELSE IF nd = 1
             THEN MCExpand([coords EXCEPT ![i + 1] =
                              getTensorProduct(coords[i + 1], i, dims)],
                           i + 1, dims)
           ELSE IF ndims = 3 /\ nd = 2 /\ i > 0
             THEN LET o1 == Ones(<<coords[1].shape[1]>>)
                      op == Outer(o1, coords[i + 1])
                  IN  IF CanReshape(op, dims)
                        THEN MCExpand([coords EXCEPT ![i + 1] = Reshape(op, dims)],
                                      i + 1, dims)
                      ELSE [err |-> "ValueError", coords |-> coords]
           ELSE [err |-> "CDMSError", coords |-> coords]

\* err: the exception raised, "none" on return; coords: the caller's list after
\* the call, which on return is also the list returned; dims: the sizes returned.
makeCurvilinear(coords) ==
  LET d == MCDims(coords, 0, 0, <<>>)
  IN  IF d.err # "none"
        THEN [err |-> d.err, coords |-> coords, dims |-> <<>>]
      ELSE LET e == MCExpand(coords, 0, d.dims)
           IN  [err |-> e.err, coords |-> e.coords,
                dims |-> IF e.err = "none" THEN d.dims ELSE <<>>]

-----------------------------------------------------------------------------
(* Specification SpecMC: makeCurvilinear applied to every list of at most  *)
(* MaxN descriptors of at most MaxRank dimensions.                          *)

ArrayOfShape(shape) ==
  [shape |-> shape, data |-> Tup([k \in 1..Prod(shape) |-> RInt(k)])]

Descriptors == {ArrayOfShape(s) : s \in SeqsOf(1..MaxLen, 1, MaxRank)}

InitMC ==
  /\ mc \in {[given |-> l, coords |-> l, called |-> FALSE,
              err |-> "none", dims |-> <<>>] :
               l \in SeqsOf(Descriptors, 1, MaxN)}
  /\ tp = Unused
  /\ user = Unused
  /\ self = Unused
  /\ lib = Unused
  /\ call = Unused

CallMakeCurvilinear ==
  /\ ~mc.called
  /\ LET r == makeCurvilinear(mc.coords)
     IN  mc' = [mc EXCEPT !.called = TRUE, !.coords = r.coords,
                          !.err = r.err, !.dims = r.dims]
  /\ UNCHANGED <<tp, user, self, lib, call>>

NextMC == CallMakeCurvilinear

SpecMC == InitMC /\ [][NextMC]_vars

Rank(a) == Len(a.shape)

\* C8: makeCurvilinear has no side effects: after it returns or raises, the
\* caller's list of descriptors and every descriptor in it are unchanged.
C8_CallerListUnchanged ==
  (mc # Unused /\ mc.called) => mc.coords = mc.given

\* The patterns the normaliser is documented to accept: every descriptor is an
\* axis or a full N-d array, or, for N = 3 only, descriptors of at most three
\* dimensions after a leading 1-d axis.
Recognised(l) ==
  \/ \A i \in 1..Len(l) : Rank(l[i]) \in {1, Len(l)}
  \/ /\ Len(l) = 3
     /\ Rank(l[1]) = 1
     /\ \A i \in 2..3 : Rank(l[i]) \in {1, 2, 3}

\* C9: every list of descriptors outside the recognised patterns is rejected
\* with an error instead of being broadcast.
C9_MalformedRejected ==
  (mc # Unused /\ mc.called /\ ~Recognised(mc.given)) => mc.err # "none"

-----------------------------------------------------------------------------
(* The native library behind self.lib.  libcf is not part of the Python    *)
(* source: its handle table is modelled from the calls the binding makes   *)
(* (a define call that returns status 0 yields a fresh handle id, a status *)
(* other than 0 defines nothing and leaves the id argument as it was).     *)

NoRegrid == [defined |-> FALSE]

\* No handle defined; ids are handed out from 1, so -1 never names a handle.
LibNew == [nextid |-> 1, live |-> {}, regrid |-> NoRegrid]

\* A successful nccf_def_* call: the id handed out is l.nextid.
Alloc(l, kind) ==
  [l EXCEPT !.live = @ \cup {<<kind, l.nextid>>}, !.nextid = @ + 1]

Zeros(n) == Tup([k \in 1..n |-> 0])

-----------------------------------------------------------------------------
(* Regrid.__init__(src_grid, dst_grid), lines 134-233.  failAt numbers the *)
(* native call that returns a status other than 0 (0: none does): calls    *)
(* 2i+1 and 2i+2 are nccf_def_coord for source and destination coordinate  *)
(* i, calls 2N+1 and 2N+2 nccf_def_grid, call 2N+3 nccf_def_regrid.        *)

\* Lines 144-152; the shared library is taken to load.
SelfNew ==
  [regridid |-> -1, src_gridid |-> -1, dst_gridid |-> -1, ndims |-> 0,
   src_dims |-> <<>>, dst_dims |-> <<>>, src_coords |-> <<>>,
   dst_coords |-> <<>>, has_coordids |-> FALSE,
   src_coordids |-> <<>>, dst_coordids |-> <<>>]

\* Lines 165-171 raise with  "..." (args)  where  "..." % (args)  was meant:
\* evaluating the message calls a str object, which raises TypeError before
\* the raise statement can raise CDMSError.
RaiseUnformatted == "TypeError"

\* Lines 196-219, from coordinate i (0-based) on.
RECURSIVE DefCoords(_, _, _, _, _, _)
DefCoords(s, l, src, dst, i, failAt) ==
  IF i >= s.ndims THEN [err |-> "none", self |-> s, lib |-> l]
  ELSE
    LET s1 == [s EXCEPT !.src_coords = Append(@, src[i + 1])]
    IN  IF failAt = 2 * i + 1
          THEN [err |-> "CDMSError", self |-> s1, lib |-> l]
        ELSE
          LET l1 == Alloc(l, "coord")
              s2 == [s1 EXCEPT !.src_coordids[i + 1] = l.nextid,
                               !.dst_coords = Append(@, dst[i + 1])]
          IN  IF failAt = 2 * i + 2
                THEN [err |-> "CDMSError", self |-> s2, lib |-> l1]
              ELSE
                LET l2 == Alloc(l1, "coord")
                    s3 == [s2 EXCEPT !.dst_coordids[i + 1] = l1.nextid]
                IN  DefCoords(s3, l2, src, dst, i + 1, failAt)

\* Lines 221-233.  The native regrid object keeps the two grids it was
\* defined on.
DefGrids(s, l, failAt) ==
  LET n == s.ndims
  IN  IF failAt = 2 * n + 1 THEN [err |-> "CDMSError", self |-> s, lib |-> l]
      ELSE
        LET l1 == Alloc(l, "grid")
            s1 == [s EXCEPT !.src_gridid = l.nextid]
        IN  IF failAt = 2 * n + 2
              THEN [err |-> "CDMSError", self |-> s1, lib |-> l1]
            ELSE
              LET l2 == Alloc(l1, "grid")
                  s2 == [s1 EXCEPT !.dst_gridid = l1.nextid]
              IN  IF failAt = 2 * n + 3
                    THEN [err |-> "CDMSError", self |-> s2, lib |-> l2]
                  ELSE
                    LET l3 == Alloc(l2, "regrid")
                        s3 == [s2 EXCEPT !.regridid = l2.nextid]
                    IN  [err  |-> "none",
                         self |-> s3,
                         lib  |-> [l3 EXCEPT !.regrid =
                                     [defined    |-> TRUE,
                                      ndims      |-> n,
                                      src_dims   |-> s.src_dims,
                                      dst_dims   |-> s.dst_dims,
                                      src_coords |-> s.src_coords,
                                      dst_coords |-> s.dst_coords,
                                      forbidden  |-> {},
                                      stencils   |-> <<>>,
                                      nvalid     |-> 0]]]

\* Lines 178-233, entered with the local names src_dims and dst_dims bound
\* (bound = TRUE) or not.  They are bound only by lines 175-176, which run
\* when ndims > 1: with ndims = 1 line 187 reads an unbound local.
InitBuild(s, l, src, dst, src_dims, dst_dims, bound, failAt) ==
  LET s1 == [s EXCEPT !.src_dims = Zeros(s.ndims), !.dst_dims = Zeros(s.ndims)]
  IN  IF ~bound THEN [err |-> "UnboundLocalError", self |-> s1, lib |-> l]
      ELSE
        LET s2 == [s1 EXCEPT !.src_dims = src_dims, !.dst_dims = dst_dims,
                             !.has_coordids = TRUE,
                             !.src_coordids = Zeros(s.ndims),
                             !.dst_coordids = Zeros(s.ndims)]
            c  == DefCoords(s2, l, src, dst, 0, failAt)
        IN  IF c.err # "none" THEN c ELSE DefGrids(c.self, c.lib, failAt)

\* The whole constructor.  src_grid and dst_grid in the result are the
\* caller's lists as the constructor leaves them.
RegridInit(src_grid, dst_grid, failAt) ==
  LET s0 == [SelfNew EXCEPT !.ndims = Len(src_grid)]
      out(err, s, l, sg, dg) ==
        [err |-> err, self |-> s, lib |-> l, src_grid |-> sg, dst_grid |-> dg]
  IN  IF Len(dst_grid) # s0.ndims
        THEN out(RaiseUnformatted, s0, LibNew, src_grid, dst_grid)
      ELSE IF s0.ndims <= 0
        THEN out(RaiseUnformatted, s0, LibNew, src_grid, dst_grid)
      ELSE IF s0.ndims > 1
        THEN
          LET ms == makeCurvilinear(src_grid)
          IN  IF ms.err # "none"
                THEN out(ms.err, s0, LibNew, ms.coords, dst_grid)
              ELSE
                LET md == makeCurvilinear(dst_grid)
                IN  IF md.err # "none"
                      THEN out(md.err, s0, LibNew, ms.coords, md.coords)
                    ELSE
                      LET b == InitBuild(s0, LibNew, ms.coords, md.coords,
                                         ms.dims, md.dims, TRUE, failAt)
                      IN  out(b.err, b.self, b.lib, ms.coords, md.coords)
      ELSE
        LET b == InitBuild(s0, LibNew, src_grid, dst_grid, <<>>, <<>>,
                           FALSE, failAt)
        IN  out(b.err, b.self, b.lib, src_grid, dst_grid)

-----------------------------------------------------------------------------
(* Specification SpecInit: the constructor on every pair of descriptor     *)
(* lists within the bounds, with every native call free to fail.           *)

\* To keep the pairs of lists few, the source descriptors are those whose
\* extents after the first are MaxLen, and the destination descriptors the
\* full-extent ones of fewer than MaxRank dimensions.
SrcDescriptors ==
  {ArrayOfShape([k \in 1..r |-> IF k = 1 THEN e ELSE MaxLen]) :
     r \in 1..MaxRank, e \in 1..MaxLen}

DstDescriptors ==
  {ArrayOfShape([k \in 1..r |-> MaxLen]) : r \in 1..(MaxRank - 1)}

NoCall == [op |-> "none", err |-> "none"]

InitI ==
  /\ user \in {[given_src |-> a, given_dst |-> b, src_grid |-> a, dst_grid |-> b] :
                 a \in SeqsOf(SrcDescriptors, 0, MaxN),
                 b \in SeqsOf(DstDescriptors, 0, MaxN)}
  /\ self = SelfNew
  /\ lib = LibNew
  /\ call = NoCall
  /\ tp = Unused
  /\ mc = Unused

Construct ==
  /\ call.op = "none"
  /\ \E failAt \in 0..(2 * Len(user.src_grid) + 3) :
       LET r == RegridInit(user.src_grid, user.dst_grid, failAt)
       IN  /\ self' = r.self
           /\ lib' = r.lib
           /\ user' = [user EXCEPT !.src_grid = r.src_grid, !.dst_grid = r.dst_grid]
           /\ call' = [op |-> "Regrid", err |-> r.err]
  /\ UNCHANGED <<tp, mc>>

NextI == Construct

SpecInit == InitI /\ [][NextI]_vars

\* C1: creating an operator from coordinate lists whose lengths differ, or
\* whose length is zero, fails with CDMSError, before any native coordinate,
\* grid or regrid handle is defined.
C1_DimensionMismatchIsCDMSError ==
  (/\ call.op = "Regrid"
   /\ \/ Len(user.given_src) # Len(user.given_dst)
      \/ Len(user.given_src) = 0)
     => (call.err = "CDMSError" /\ lib.live = {} /\ lib.nextid = LibNew.nextid)

\* C7: every operator that is successfully created holds source and
\* destination grids in which each coordinate array has a shape equal to
\* that grid's dims.
C7_CoordShapesEqualDims ==
  (call.op = "Regrid" /\ call.err = "none") =>
     /\ \A i \in 1..self.ndims : self.src_coords[i].shape = self.src_dims
     /\ \A i \in 1..self.ndims : self.dst_coords[i].shape = self.dst_dims

-----------------------------------------------------------------------------
(* The libcf kernels behind nccf_find_indices_double,                      *)
(* nccf_compute_regrid_weights, nccf_apply_regrid and the nccf_inq_regrid  *)
(* calls.  Their code is not part of the Python source; they are modelled  *)
(* from the design of the index locator, the weight builder, the forbidden *)
(* region filter and the interpolation applier.  g is the native regrid    *)
(* object: the two grids, the forbidden boxes, the stencil table.          *)
(* Choices the design leaves open: the residual is the largest absolute    *)
(* component difference; the Newton step is undamped and uses, along each  *)
(* dimension, the spacing of the cell holding the estimate; the weight     *)
(* builder starts every search at the grid centre; a point on the upper    *)
(* edge of the grid belongs to the last cell.                              *)

RECURSIVE Pow2(_)
Pow2(n) == IF n <= 0 THEN 1 ELSE 2 * Pow2(n - 1)

\* The corners of a cell are numbered 0..2^N-1; bit k-1 of the number is the
\* corner's offset (0 or 1) along dimension k.
CornerSet(n) == 0..(Pow2(n) - 1)
CornerOff(c, k) == (c \div Pow2(k - 1)) % 2

\* The lower corner, along one axis of n nodes, of the cell holding the
\* fractional index x: its integer floor, kept inside the grid.
CellLo(x, n) ==
  IF n <= 1 THEN 0
  ELSE LET f == RFloor(x)
       IN  IF f > n - 2 THEN n - 2 ELSE IF f < 0 THEN 0 ELSE f

CellOf(idx, dims) == Tup([k \in 1..Len(dims) |-> CellLo(idx[k], dims[k])])

\* The fractional remainder per dimension: the interpolation weight of the
\* upper side.
FracOf(idx, dims) ==
  Tup([k \in 1..Len(dims) |-> RSub(idx[k], RInt(CellLo(idx[k], dims[k])))])

CornerIndex(lo, c) == Tup([k \in 1..Len(lo) |-> lo[k] + CornerOff(c, k)])

\* The sum, the product and the largest of the entries a..b-1 of a sequence
\* of rationals, taken by halves.
RECURSIVE SumRange(_, _, _)
SumRange(s, a, b) ==
  IF b - a = 1 THEN s[a]
  ELSE RAdd(SumRange(s, a, (a + b) \div 2), SumRange(s, (a + b) \div 2, b))

RECURSIVE ProdRange(_, _, _)
ProdRange(s, a, b) ==
  IF b - a = 1 THEN s[a]
  ELSE RMul(ProdRange(s, a, (a + b) \div 2), ProdRange(s, (a + b) \div 2, b))

RECURSIVE MaxRange(_, _, _)
MaxRange(s, a, b) ==
  IF b - a = 1 THEN s[a]
  ELSE RMax(MaxRange(s, a, (a + b) \div 2), MaxRange(s, (a + b) \div 2, b))

SumSeq(s)  == IF Len(s) = 0 THEN RInt(0) ELSE SumRange(s, 1, Len(s) + 1)
ProdSeq(s) == IF Len(s) = 0 THEN RInt(1) ELSE ProdRange(s, 1, Len(s) + 1)
MaxSeq(s)  == IF Len(s) = 0 THEN RInt(0) ELSE MaxRange(s, 1, Len(s) + 1)

\* The product over the dimensions of frac_k (upper side) or 1 - frac_k.
CornerWeight(frac, c) ==
  ProdSeq(Tup([k \in 1..Len(frac) |->
                 IF CornerOff(c, k) = 1 THEN frac[k]
                 ELSE RSub(RInt(1), frac[k])]))

InGrid(ci, dims) == \A k \in 1..Len(dims) : ci[k] >= 0 /\ ci[k] < dims[k]

\* A corner index moved onto the grid (an axis of one node has no upper side).
OnGrid(ci, dims) ==
  Tup([k \in 1..Len(dims) |-> IF ci[k] >= dims[k] THEN dims[k] - 1 ELSE ci[k]])

\* The corners of the cell holding the fractional index idx on a grid of
\* sizes dims, as flat C-order indices, and their multilinear weights.
CellStencil(idx, dims) ==
  LET lo   == CellOf(idx, dims)
      frac == FracOf(idx, dims)
  IN  [inds    |-> Tup([c \in 1..Pow2(Len(dims)) |->
                          FlatIndex(OnGrid(CornerIndex(lo, c - 1), dims), dims)]),
       weights |-> Tup([c \in 1..Pow2(Len(dims)) |-> CornerWeight(frac, c - 1)])]

\* The weighted sum of the values src (C order) over the entries of a
\* stencil: the multilinear interpolation of src in the stencil's cell.
WeightedSum(st, src) ==
  SumSeq(Tup([c \in 1..Len(st.inds) |->
                RMul(st.weights[c], src[st.inds[c] + 1])]))

\* The physical position of the fractional index idx on the source grid.
Position(g, idx) ==
  LET st == CellStencil(idx, g.src_dims)
  IN  Tup([k \in 1..g.ndims |-> WeightedSum(st, g.src_coords[k].data)])

\* The spacing of coordinate k along dimension k in the cell holding idx: the
\* diagonal of the local Jacobian of coordinate with respect to index.
Spacing(g, idx, k) ==
  LET lo == CellOf(idx, g.src_dims)
      hi == Tup([j \in 1..g.ndims |->
                   IF j = k /\ g.src_dims[k] > 1 THEN lo[j] + 1 ELSE lo[j]])
  IN  RSub(g.src_coords[k].data[FlatIndex(hi, g.src_dims) + 1],
           g.src_coords[k].data[FlatIndex(lo, g.src_dims) + 1])

\* The largest absolute component difference.
Residual(target, pos) ==
  MaxSeq(Tup([k \in 1..Len(target) |-> RAbs(RSub(target[k], pos[k]))]))

\* x - m * floor(x / m), m > 0.
RMod(x, m) == RSub(x, RMul(RInt(RFloor(RDiv(x, m))), m))

\* An estimate brought back into [0, n-1]: wrapped on a periodic axis, where
\* index n-1 and index 0 are the same place, clamped otherwise.
IntoRange(x, n, periodic) ==
  IF periodic /\ n > 1 THEN RMod(x, RInt(n - 1))
  ELSE IF RLt(x, RInt(0)) THEN RInt(0)
  ELSE IF RLt(RInt(n - 1), x) THEN RInt(n - 1)
  ELSE x

\* The first and last value of coordinate k along its own axis.
AxisFirst(g, k) == g.src_coords[k].data[1]
AxisLast(g, k) ==
  g.src_coords[k].data[
    FlatIndex(Tup([j \in 1..g.ndims |-> IF j = k THEN g.src_dims[k] - 1 ELSE 0]),
              g.src_dims) + 1]

\* On a periodic axis a target is the same place as the target moved by a
\* whole number of periods: it is taken inside the axis.
TargetInPeriod(g, per, target) ==
  Tup([k \in 1..g.ndims |->
         LET period == RSub(AxisLast(g, k), AxisFirst(g, k))
         IN  IF per[k] = 1 /\ RLt(RInt(0), period)
               THEN RAdd(AxisFirst(g, k),
                         RMod(RSub(target[k], AxisFirst(g, k)), period))
             ELSE target[k]])

\* An estimate with its physical position and its residual.
NewtonState(g, target, idx) ==
  LET pos == Position(g, idx)
  IN  [idx |-> idx, pos |-> pos, r |-> Residual(target, pos)]

\* One Newton step from the estimate st.
NewtonStep(g, per, target, st) ==
  Tup([k \in 1..g.ndims |->
         LET j    == Spacing(g, st.idx, k)
             corr == IF j = RInt(0) THEN RInt(0)
                     ELSE RDiv(RSub(target[k], st.pos[k]), j)
         IN  IntoRange(RAdd(st.idx[k], corr), g.src_dims[k], per[k] = 1)])

\* Iterate until the residual drops below tol (status 0) or the budget of
\* nitermax iterations is spent (status 1).  niter and tol are returned as
\* the iterations used and the residual achieved.
RECURSIVE NewtonIterate(_, _, _, _, _, _, _)
NewtonIterate(g, per, target, tol, nitermax, st, niter) ==
  IF RLt(st.r, tol)
    THEN [status |-> 0, indices |-> st.idx, niter |-> niter, tol |-> st.r]
  ELSE IF niter >= nitermax
    THEN [status |-> 1, indices |-> st.idx, niter |-> niter, tol |-> st.r]
  ELSE NewtonIterate(g, per, target, tol, nitermax,
                     NewtonState(g, target, NewtonStep(g, per, target, st)),
                     niter + 1)

\* nccf_find_indices_double: per is the periodicity array (0 or 1 per axis).
NativeFindIndices(g, per, target, nitermax, tol, guess) ==
  LET t == TargetInPeriod(g, per, target)
  IN  NewtonIterate(g, per, t, tol, nitermax, NewtonState(g, t, guess), 0)

NoStencil == [valid |-> FALSE]

InBox(ci, box) ==
  \A k \in 1..Len(ci) : box.lo[k] <= ci[k] /\ ci[k] <= box.hi[k]

GridCentre(dims) == Tup([k \in 1..Len(dims) |-> Rat(dims[k] - 1, 2)])

\* The physical position of the destination point of flat index d (0-based).
DstPoint(g, d) == Tup([k \in 1..g.ndims |-> g.dst_coords[k].data[d + 1]])

\* The stencil of destination point d: 2^N corner flat indices and their
\* multilinear weights; none when the locator did not converge, a corner
\* lies off the grid, or a corner lies in a forbidden box.
StencilFor(g, per, nitermax, tol, d) ==
  LET loc  == NativeFindIndices(g, per, DstPoint(g, d), nitermax, tol,
                                GridCentre(g.src_dims))
      lo   == CellOf(loc.indices, g.src_dims)
      cell == CellStencil(loc.indices, g.src_dims)
      bad  == \E c \in CornerSet(g.ndims) :
                \/ ~InGrid(CornerIndex(lo, c), g.src_dims)
                \/ \E b \in g.forbidden : InBox(CornerIndex(lo, c), b)
  IN  IF loc.status # 0 \/ bad THEN NoStencil
      ELSE [valid |-> TRUE, inds |-> cell.inds, weights |-> cell.weights]

\* nccf_compute_regrid_weights: the stencil table is replaced.
NativeComputeWeights(g, nitermax, tol, per) ==
  LET table == Tup([d \in 1..Prod(g.dst_dims) |->
                      StencilFor(g, per, nitermax, tol, d - 1)])
  IN  [g EXCEPT !.stencils = table,
                !.nvalid = Cardinality({d \in 1..Len(table) : table[d].valid})]

\* nccf_add_regrid_forbidden: the box joins the set.
NativeAddForbidden(g, lo, hi) ==
  [g EXCEPT !.forbidden = @ \cup {[lo |-> lo, hi |-> hi]}]

\* nccf_inq_regrid_ntargets: the number of destination points.
NativeNumTargets(g) == Prod(g.dst_dims)

\* A real stored in a buffer of the given element type: a C conversion to
\* int drops the fraction; floating-point rounding is not modelled.
Trunc(a) == IF a[1] >= 0 THEN a[1] \div a[2] ELSE -((-a[1]) \div a[2])
Store(dtype, v) == IF dtype = "int32" THEN RInt(Trunc(v)) ELSE v

HasStencil(g, i) == i <= Len(g.stencils) /\ g.stencils[i].valid

\* A plausible slip in the applier: a point without a stencil is given the
\* fill value 0 instead of being skipped.
NativeApplyFilling(g, src, dst, dtype) ==
  Tup([i \in 1..Len(dst) |->
         IF HasStencil(g, i)
           THEN Store(dtype, WeightedSum(g.stencils[i], src))
         ELSE RInt(0)])

\* nccf_apply_regrid on the two data buffers (C order): the destination
\* buffer after the call.  A point without a stencil is not written.
NativeApply(g, src, dst, dtype) ==
  Tup([i \in 1..Len(dst) |->
         IF HasStencil(g, i)
           THEN Store(dtype, WeightedSum(g.stencils[i], src))
         ELSE dst[i]])

-----------------------------------------------------------------------------
(* The module-level helpers and the methods of Regrid.  Each method model   *)
(* takes the object s, the native library state l and the arguments, and    *)
(* returns the exception raised ("none" on return) with what the call left  *)
(* behind.  status and failAt stand for the status a native call returns.   *)

\* catchError(status, lineno), lines 38-41.
catchError(status) == IF status # 0 THEN "CDMSError" ELSE "none"

\* getPeriodicityArray(ndims, is_periodic), lines 62-76.  res[i] = 1 with
\* i >= ndims raises IndexError; a False entry is never stored, whatever its
\* position.
getPeriodicityArray(ndims, is_periodic) ==
  IF \E i \in 1..Len(is_periodic) : is_periodic[i] /\ i > ndims
    THEN [err |-> "IndexError", res |-> Zeros(ndims)]
  ELSE [err |-> "none",
        res |-> Tup([i \in 1..ndims |->
                       IF i <= Len(is_periodic) /\ is_periodic[i] THEN 1 ELSE 0])]

\* Python values handed to a ctypes constructor.
PyInt(v) == [kind |-> "int", val |-> v]
PyTuple(v) == [kind |-> "tuple", val |-> v]

\* (c_int * n)(*inits): at most n initialisers (IndexError otherwise), each
\* of them an integer (TypeError otherwise); missing entries are 0.
CIntArray(n, inits) ==
  IF Len(inits) > n THEN [err |-> "IndexError"]
  ELSE IF \E k \in 1..Len(inits) : inits[k].kind # "int" THEN [err |-> "TypeError"]
  ELSE [err |-> "none",
        val |-> Tup([k \in 1..n |-> IF k <= Len(inits) THEN inits[k].val ELSE 0])]

\* addForbiddenBox(lo, hi), lines 256-279.  Lines 274-275 hand the
\* constructor one initialiser, the tuple itself.
addForbiddenBox(s, l, lo, hi, status) ==
  IF Len(lo) # s.ndims THEN [err |-> "CDMSError", lib |-> l]
  ELSE IF Len(hi) # s.ndims THEN [err |-> "CDMSError", lib |-> l]
  ELSE
    LET loIndices == CIntArray(s.ndims, <<PyTuple(lo)>>)
        hiIndices == CIntArray(s.ndims, <<PyTuple(hi)>>)
    IN  IF loIndices.err # "none" THEN [err |-> loIndices.err, lib |-> l]
        ELSE IF hiIndices.err # "none" THEN [err |-> hiIndices.err, lib |-> l]
        ELSE IF status # 0 THEN [err |-> catchError(status), lib |-> l]
        ELSE [err |-> "none",
              lib |-> [l EXCEPT !.regrid =
                         NativeAddForbidden(@, loIndices.val, hiIndices.val)]]

\* computeWeights(nitermax, tolpos, is_periodic), lines 281-297.
computeWeights(s, l, nitermax, tolpos, is_periodic, status) ==
  LET isPeriodic == getPeriodicityArray(s.ndims, is_periodic)
  IN  IF isPeriodic.err # "none" THEN [err |-> isPeriodic.err, lib |-> l]
      ELSE IF status # 0 THEN [err |-> catchError(status), lib |-> l]
      ELSE [err |-> "none",
            lib |-> [l EXCEPT !.regrid =
                       NativeComputeWeights(@, nitermax, tolpos, isPeriodic.res)]]

\* The test of lines 308-309 and 313-314: the first ndims extents only.
ShapeMatches(shape, dims, ndims) == \A i \in 1..ndims : shape[i] = dims[i]

\* The element types lines 336-353 and 360-377 have a native setter for.
SupportedTypes == {"float64", "float32", "int32"}

\* A successful nccf_free_* call.
Free(l, h) == [l EXCEPT !.live = @ \ {h}]

\* Lines 308-389, with written the destination array as line 381 leaves
\* it.  failAt numbers the native call that returns a status other than 0:
\* 1 nccf_def_data (source), 2 nccf_set_data_* (source), 3 nccf_def_data
\* (destination), 4 nccf_set_data_* (destination), 5 nccf_apply_regrid, 6 and
\* 7 nccf_free_data.  The list comprehension reads shape[i] for every i below
\* ndims before anything is compared: a shape with fewer entries raises
\* IndexError.
applyBody(s, l, src_data, dst_data, failAt, written) ==
  LET out(err, l1, d) == [err |-> err, lib |-> l1, dst_data |-> d]
  IN  IF Len(src_data.shape) < s.ndims THEN out("IndexError", l, dst_data)
      ELSE IF ~ShapeMatches(src_data.shape, s.src_dims, s.ndims)
        THEN out("CDMSError", l, dst_data)
      ELSE IF Len(dst_data.shape) < s.ndims THEN out("IndexError", l, dst_data)
      ELSE IF ~ShapeMatches(dst_data.shape, s.dst_dims, s.ndims)
        THEN out("CDMSError", l, dst_data)
      ELSE IF failAt = 1 THEN out(catchError(1), l, dst_data)
      ELSE
        LET l1 == Alloc(l, "data")
            l2 == Alloc(l1, "data")
            l3 == Free(l2, <<"data", l.nextid>>)
        IN  IF src_data.dtype \notin SupportedTypes THEN out("CDMSError", l1, dst_data)
            ELSE IF failAt = 2 THEN out(catchError(1), l1, dst_data)
            ELSE IF failAt = 3 THEN out(catchError(1), l1, dst_data)
            ELSE IF dst_data.dtype \notin SupportedTypes
              THEN out("CDMSError", l2, dst_data)
            ELSE IF failAt = 4 THEN out(catchError(1), l2, dst_data)
            ELSE IF failAt = 5 THEN out(catchError(1), l2, dst_data)
            ELSE IF failAt = 6 THEN out(catchError(1), l2, written)
            ELSE IF failAt = 7 THEN out(catchError(1), l3, written)
            ELSE out("none", Free(l3, <<"data", l1.nextid>>), written)

\* A plausible slip: line 381 with the two data ids exchanged, so that the
\* native call writes into the source buffer and leaves dst_data alone.
applySwapped(s, l, src_data, dst_data, failAt) ==
  applyBody(s, l, src_data, dst_data, failAt, dst_data)

\* apply(src_data, dst_data), lines 299-389: line 381 interpolates src_data
\* into the buffer of dst_data.
apply(s, l, src_data, dst_data, failAt) ==
  applyBody(s, l, src_data, dst_data, failAt,
            [dst_data EXCEPT !.data =
               NativeApply(l.regrid, src_data.data, @, dst_data.dtype)])

\* getNumValid(), lines 391-403.
getNumValid(s, l, status) ==
  IF status # 0 THEN [err |-> catchError(status)]
  ELSE [err |-> "none", ret |-> l.regrid.nvalid]

\* getNumDstPoints(), lines 405-414.
getNumDstPoints(s, l, status) ==
  IF status # 0 THEN [err |-> catchError(status)]
  ELSE [err |-> "none", ret |-> NativeNumTargets(l.regrid)]

\* What _findIndices hands the native locator: the source grid of the object.
SrcGridOf(s) ==
  [ndims |-> s.ndims, src_dims |-> s.src_dims, src_coords |-> s.src_coords]

\* A plausible slip: line 485 active, the status checked like everywhere else.
findIndicesChecked(s, targetPos, nitermax, tolpos, dindicesGuess, is_periodic) ==
  LET isPeriodic == getPeriodicityArray(s.ndims, is_periodic)
  IN  IF isPeriodic.err # "none"
        THEN [err |-> isPeriodic.err, status |-> 0, guess |-> dindicesGuess]
      ELSE
        LET r == NativeFindIndices(SrcGridOf(s), isPeriodic.res, targetPos,
                                   nitermax, tolpos, dindicesGuess)
        IN  IF r.status # 0
              THEN [err |-> catchError(r.status), status |-> r.status,
                    guess |-> dindicesGuess]
            ELSE [err |-> "none", status |-> r.status,
                  ret |-> <<r.indices, r.niter, r.tol>>, guess |-> dindicesGuess]

\* _findIndices(targetPos, nitermax, tolpos, dindicesGuess, is_periodic),
\* lines 454-486.  The locator writes into res, a copy of the guess (line
\* 468); its status is dropped (line 485 is a comment).  guess is the
\* caller's vector after the call.
findIndices(s, targetPos, nitermax, tolpos, dindicesGuess, is_periodic) ==
  LET isPeriodic == getPeriodicityArray(s.ndims, is_periodic)
  IN  IF isPeriodic.err # "none"
        THEN [err |-> isPeriodic.err, status |-> 0, guess |-> dindicesGuess]
      ELSE
        LET r == NativeFindIndices(SrcGridOf(s), isPeriodic.res, targetPos,
                                   nitermax, tolpos, dindicesGuess)
        IN  [err |-> "none", status |-> r.status,
             ret |-> <<r.indices, r.niter, r.tol>>, guess |-> dindicesGuess]

-----------------------------------------------------------------------------
(* Specification Spec: an operator built on a small 2-d grid, then any     *)
(* sequence of method calls.  call records the last call: its arguments,   *)
(* the exception it raised and what it returned.                           *)

\* Largest iteration budget handed to the locator.
MaxIter == 2
\* Most method calls made on the operator; call.n counts them.
MaxCalls == 2

\* numpy.array(v) for a list of numbers.
Axis(v) == [shape |-> <<Len(v)>>, data |-> v]

\* The source x axis is not uniform: from the grid centre one Newton step
\* does not reach x = 0.  The destination x = 4 lies beyond the source grid.
SrcAxes == <<Axis(<<RInt(0), RInt(1), RInt(3)>>), Axis(<<RInt(0), RInt(2)>>)>>
DstAxes == <<Axis(<<RInt(0), RInt(1), RInt(4)>>), Axis(<<RInt(1)>>)>>

Init ==
  /\ LET r == RegridInit(SrcAxes, DstAxes, 0)
     IN  /\ self = r.self
         /\ lib = r.lib
         /\ user = [src_grid |-> r.src_grid, dst_grid |-> r.dst_grid]
  /\ call = [op |-> "none", err |-> "none", n |-> 0]
  /\ tp = Unused
  /\ mc = Unused

LastIndices(dims) == Tup([k \in 1..Len(dims) |-> dims[k] - 1])

\* Index lists of the object's length, one shorter and one longer.
LoLists == {Zeros(self.ndims), Zeros(self.ndims - 1)}
HiLists == {LastIndices(self.src_dims), Zeros(self.ndims + 1)}

AddForbiddenBox ==
  /\ call.n < MaxCalls
  /\ \E lo \in LoLists, hi \in HiLists, status \in {0} :
       LET r == addForbiddenBox(self, lib, lo, hi, status)
       IN  /\ lib' = r.lib
           /\ call' = [op |-> "addForbiddenBox", n |-> call.n + 1, err |-> r.err,
                       lo |-> lo, hi |-> hi]
  /\ UNCHANGED <<tp, mc, user, self>>

Tolerances == {<<1, 100>>}

\* No entry, the first axis periodic, and a list one longer than the grid
\* whose last entry is True.
PeriodicLists ==
  {<<>>,
   Tup([k \in 1..self.ndims |-> k = 1]),
   Tup([k \in 1..(self.ndims + 1) |-> k = self.ndims + 1])}

\* A budget of one iteration and the largest budget.
Budgets == {1, MaxIter}

ComputeWeights ==
  /\ call.n < MaxCalls
  /\ \E nitermax \in Budgets, tolpos \in Tolerances,
        is_periodic \in PeriodicLists, status \in {0, 1} :
       LET r == computeWeights(self, lib, nitermax, tolpos, is_periodic, status)
       IN  /\ lib' = r.lib
           /\ call' = [op |-> "computeWeights", n |-> call.n + 1, err |-> r.err,
                       nitermax |-> nitermax, is_periodic |-> is_periodic]
  /\ UNCHANGED <<tp, mc, user, self>>

DTypes == {"float64", "float32", "int32", "int16"}

\* The shape itself, with one more dimension, with one fewer, and with a
\* wrong last extent.
ShapeVariants(d) ==
  {d, d \o <<MaxLen>>, SubSeq(d, 1, Len(d) - 1), [d EXCEPT ![Len(d)] = @ + 1]}

\* A source field holding 1, 2, ... and a destination field holding -1.
SrcField(shape, dtype) ==
  [shape |-> shape, dtype |-> dtype,
   data |-> Tup([k \in 1..Prod(shape) |-> RInt(k)])]
DstField(shape, dtype) ==
  [shape |-> shape, dtype |-> dtype,
   data |-> Tup([k \in 1..Prod(shape) |-> RInt(-1)])]

\* Every shape and every element type of one field with the other field
\* well formed, and every failing native call.
ApplyCases ==
  {[src |-> SrcField(ss, st), dst |-> DstField(self.dst_dims, "float64"),
    failAt |-> 0] : ss \in ShapeVariants(self.src_dims), st \in {"float64"}}
  \cup
  {[src |-> SrcField(self.src_dims, "float64"), dst |-> DstField(ds, "float64"),
    failAt |-> 0] : ds \in ShapeVariants(self.dst_dims)}
  \cup
  {[src |-> SrcField(self.src_dims, st), dst |-> DstField(self.dst_dims, "float64"),
    failAt |-> 0] : st \in DTypes}
  \cup
  {[src |-> SrcField(self.src_dims, "float64"), dst |-> DstField(self.dst_dims, dt),
    failAt |-> 0] : dt \in DTypes}
  \cup
  {[src |-> SrcField(self.src_dims, "float64"),
    dst |-> DstField(self.dst_dims, "float64"), failAt |-> k] : k \in 1..7}

Apply ==
  /\ call.n < MaxCalls
  /\ \E c \in ApplyCases :
       LET r == apply(self, lib, c.src, c.dst, c.failAt)
       IN  /\ lib' = r.lib
           /\ call' = [op |-> "apply", n |-> call.n + 1, err |-> r.err, src_data |-> c.src,
                       dst_before |-> c.dst, dst_after |-> r.dst_data,
                       nextid_before |-> lib.nextid]
  /\ UNCHANGED <<tp, mc, user, self>>

GetNumValid ==
  /\ call.n < MaxCalls
  /\ \E status \in {0, 1} :
       LET r == getNumValid(self, lib, status)
       IN  call' = [op |-> "getNumValid", n |-> call.n + 1, err |-> r.err,
                    ret |-> IF r.err = "none" THEN r.ret ELSE -1]
  /\ UNCHANGED <<tp, mc, user, self, lib>>

GetNumDstPoints ==
  /\ call.n < MaxCalls
  /\ \E status \in {0, 1} :
       LET r == getNumDstPoints(self, lib, status)
       IN  call' = [op |-> "getNumDstPoints", n |-> call.n + 1, err |-> r.err,
                    ret |-> IF r.err = "none" THEN r.ret ELSE -1]
  /\ UNCHANGED <<tp, mc, user, self, lib>>

\* The first and the last destination point of the grid, and the grid
\* centre and the origin as initial guesses.
Targets == {DstPoint(lib.regrid, d - 1) : d \in {1, NativeNumTargets(lib.regrid)}}
Guesses == {GridCentre(self.src_dims), Tup([k \in 1..self.ndims |-> RInt(0)])}

\* Every target, budget and guess without a periodic axis, and every
\* periodicity list with the first target, one iteration and the centre.
FindCases ==
  {[targetPos |-> t, nitermax |-> n, dindicesGuess |-> gu, is_periodic |-> <<>>] :
     t \in Targets, n \in Budgets, gu \in Guesses}
  \cup
  {[targetPos |-> DstPoint(lib.regrid, NativeNumTargets(lib.regrid) - 1),
    nitermax |-> 1, dindicesGuess |-> GridCentre(self.src_dims),
    is_periodic |-> p] : p \in PeriodicLists}

FindIndices ==
  /\ call.n < MaxCalls
  /\ \E c \in FindCases, tolpos \in Tolerances :
       LET targetPos     == c.targetPos
           nitermax      == c.nitermax
           dindicesGuess == c.dindicesGuess
           is_periodic   == c.is_periodic
           r == findIndices(self, targetPos, nitermax, tolpos, dindicesGuess,
                            is_periodic)
       IN  call' = [op |-> "_findIndices", n |-> call.n + 1, err |-> r.err, status |-> r.status,
                    ret |-> IF r.err = "none" THEN r.ret ELSE <<>>,
                    targetPos |-> targetPos, nitermax |-> nitermax,
                    is_periodic |-> is_periodic,
                    dindicesGuess |-> dindicesGuess, guess_after |-> r.guess]
  /\ UNCHANGED <<tp, mc, user, self, lib>>

Next ==
  \/ AddForbiddenBox
  \/ ComputeWeights
  \/ Apply
  \/ GetNumValid
  \/ GetNumDstPoints
  \/ FindIndices

Spec == Init /\ [][Next]_vars

\* C2: apply fails with CDMSError whenever the shape of the source field is
\* not exactly the source grid's dims or the shape of the destination field
\* is not exactly the destination grid's dims, fields of more or fewer
\* dimensions included; no native data handle is then defined and the
\* destination field is not written.
C2_ShapeMismatchIsCDMSError ==
  (/\ call.op = "apply"
   /\ \/ call.src_data.shape # self.src_dims
      \/ call.dst_before.shape # self.dst_dims)
     => /\ call.err = "CDMSError"
        /\ lib.nextid = call.nextid_before
        /\ call.dst_after = call.dst_before

\* C3: after apply, every destination point without a valid stencil holds
\* the value it held before: apply writes only points with a valid stencil.
C3_PointsWithoutStencilUntouched ==
  call.op = "apply" =>
     \A i \in 1..Len(call.dst_after.data) :
        ~HasStencil(lib.regrid, i) =>
           call.dst_after.data[i] = call.dst_before.data[i]

\* Weights were computed, apply returned, one point has no stencil and kept
\* its value, another has one and was written.
C3_Witness ==
  /\ call.op = "apply"
  /\ call.err = "none"
  /\ lib.regrid.stencils # <<>>
  /\ \E i \in 1..Len(call.dst_after.data) :
       ~HasStencil(lib.regrid, i) /\ call.dst_after.data[i] = RInt(-1)
  /\ \E j \in 1..Len(call.dst_after.data) :
       HasStencil(lib.regrid, j) /\ call.dst_after.data[j] # call.dst_before.data[j]

\* C4: addForbiddenBox(lo, hi) with lo all zeros and hi = dims - 1, both of
\* the operator's length, returns and registers the box (so that the next
\* computeWeights leaves no valid destination point).
C4_FullBoxRegistered ==
  (/\ call.op = "addForbiddenBox"
   /\ call.lo = Zeros(self.ndims)
   /\ call.hi = LastIndices(self.src_dims))
     => /\ call.err = "none"
        /\ [lo |-> call.lo, hi |-> call.hi] \in lib.regrid.forbidden

\* The periodicity list names no axis beyond the grid's.
PeriodicityFits(ndims, is_periodic) ==
  \A i \in 1..Len(is_periodic) : is_periodic[i] => i <= ndims

\* C6: _findIndices never raises on the status of the native locator: for
\* every target, budget, tolerance and guess it returns the triple
\* (fractional index, iterations used, achieved tolerance), and the caller's
\* guess vector is as it was.
C6_NonConvergenceIsNotRaised ==
  (call.op = "_findIndices" /\ PeriodicityFits(self.ndims, call.is_periodic))
     => /\ call.err = "none"
        /\ Len(call.ret) = 3
        /\ Len(call.ret[1]) = self.ndims
        /\ call.ret[2] <= call.nitermax
        /\ call.guess_after = call.dindicesGuess

\* The locator ran out of budget above the tolerance, away from the guess.
C6_Witness ==
  /\ call.op = "_findIndices"
  /\ call.status # 0
  /\ call.err = "none"
  /\ call.nitermax > 0
  /\ call.ret[1] # call.dindicesGuess
  /\ RLt(<<1, 100>>, call.ret[3])

\* C12: after any call of apply, whether it returned or raised, no native
\* data handle defined by that call (ids from the one the library handed out
\* first during the call) is still allocated.
C12_ApplyFreesItsDataHandles ==
  call.op = "apply" =>
     \A h \in lib.live : h[1] = "data" => h[2] < call.nextid_before

-----------------------------------------------------------------------------
(* Specification SpecTest: the scenario of test(), lines 504-549, one      *)
(* statement per step.  as_written tells whether the _findIndices call of  *)
(* lines 524-526 is made; bg is the value the destination field is filled  *)
(* with before apply (test() uses -1).                                     *)

\* Largest magnitude of the value the destination field starts with.
MaxBg == 8

\* Lines 510-517.
TestSrcAxes ==
  <<Axis(<<RInt(1), RInt(2), RInt(3), RInt(4)>>),
    Axis(<<RInt(10), RInt(20), RInt(30)>>),
    Axis(<<RInt(100), RInt(200)>>)>>
TestDstAxes ==
  <<Axis(<<<<3, 2>>, RInt(2), <<5, 2>>, <<7, 2>>>>),
    Axis(<<RInt(15), RInt(20), RInt(25)>>),
    Axis(<<RInt(120), RInt(180)>>)>>

\* func(coords), lines 506-507, element by element.
func(coords) ==
  [shape |-> coords[1].shape,
   data  |-> Tup([i \in 1..Len(coords[1].data) |->
                    RAdd(RMul(coords[1].data[i], coords[2].data[i]),
                         coords[3].data[i])])]

\* Lines 524-526 pass targetPos, nitermax, tolpos and is_periodic: the
\* parameter dindicesGuess has no default and gets no value.
TestFindIndicesCall == "TypeError"

InitTest ==
  /\ user \in {[bg |-> RInt(-b), as_written |-> w, nvalid |-> -1,
                ndstpts |-> -1, dst_data |-> <<>>, error |-> RInt(-1)] :
                 b \in 1..MaxBg, w \in BOOLEAN}
  /\ self = SelfNew
  /\ lib = LibNew
  /\ call = [op |-> "test", pc |-> "start", err |-> "none"]
  /\ tp = Unused
  /\ mc = Unused

Raised(err) == [op |-> "test", pc |-> "raised", err |-> err]
At(pc) == [op |-> "test", pc |-> pc, err |-> "none"]

\* Lines 519-520.
TestCreate ==
  /\ call.pc = "start"
  /\ \E failAt \in 0..(2 * Len(TestSrcAxes) + 3) :
       LET r == RegridInit(TestSrcAxes, TestDstAxes, failAt)
       IN  /\ self' = r.self
           /\ lib' = r.lib
           /\ call' = IF r.err = "none" THEN At("created") ELSE Raised(r.err)
  /\ UNCHANGED <<tp, mc, user>>

\* Lines 524-526, when the call is made: test() ends there.
TestFindIndices ==
  /\ call.pc = "created"
  /\ user.as_written
  /\ call' = Raised(TestFindIndicesCall)
  /\ UNCHANGED <<tp, mc, user, self, lib>>

\* Line 529.
TestComputeWeights ==
  /\ call.pc = "created"
  /\ ~user.as_written
  /\ \E status \in {0, 1} :
       LET r == computeWeights(self, lib, 10, <<1, 1000>>,
                               <<FALSE, FALSE, FALSE>>, status)
       IN  /\ lib' = r.lib
           /\ call' = IF r.err = "none" THEN At("weighted") ELSE Raised(r.err)
  /\ UNCHANGED <<tp, mc, user, self>>

\* Line 530.
TestGetNumValid ==
  /\ call.pc = "weighted"
  /\ \E status \in {0, 1} :
       LET r == getNumValid(self, lib, status)
       IN  IF r.err = "none"
             THEN call' = At("nvalid") /\ user' = [user EXCEPT !.nvalid = r.ret]
           ELSE call' = Raised(r.err) /\ user' = user
  /\ UNCHANGED <<tp, mc, self, lib>>

\* Line 531.
TestGetNumDstPoints ==
  /\ call.pc = "nvalid"
  /\ \E status \in {0, 1} :
       LET r == getNumDstPoints(self, lib, status)
       IN  IF r.err = "none"
             THEN call' = At("ndstpts") /\ user' = [user EXCEPT !.ndstpts = r.ret]
           ELSE call' = Raised(r.err) /\ user' = user
  /\ UNCHANGED <<tp, mc, self, lib>>

\* Lines 539-543: the fields are float32 arrays, the source one func of the
\* source coordinates, the destination one filled with the background.
TestApply ==
  /\ call.pc = "ndstpts"
  /\ \E failAt \in {0} \cup 1..7 :
       LET f == func(self.src_coords)
           src_data == [shape |-> f.shape, dtype |-> "float32", data |-> f.data]
           dst_data == [shape |-> self.dst_coords[1].shape, dtype |-> "float32",
                        data  |-> Tup([i \in 1..Len(self.dst_coords[1].data) |->
                                         user.bg])]
           r == apply(self, lib, src_data, dst_data, failAt)
       IN  /\ lib' = r.lib
           /\ user' = [user EXCEPT !.dst_data = r.dst_data]
           /\ call' = IF r.err = "none" THEN At("applied") ELSE Raised(r.err)
  /\ UNCHANGED <<tp, mc, self>>

\* Line 546: error = numpy.sum(abs(dst_data - func(dst_coords))).
TestCheck ==
  /\ call.pc = "applied"
  /\ LET want == func(self.dst_coords).data
     IN  user' = [user EXCEPT !.error =
                    SumSeq(Tup([i \in 1..Len(want) |->
                                  RAbs(RSub(user.dst_data.data[i], want[i]))]))]
  /\ call' = At("done")
  /\ UNCHANGED <<tp, mc, self, lib>>

NextTest ==
  \/ TestCreate
  \/ TestFindIndices
  \/ TestComputeWeights
  \/ TestGetNumValid
  \/ TestGetNumDstPoints
  \/ TestApply
  \/ TestCheck

SpecTest == InitTest /\ [][NextTest]_vars

\* f(x, y, z) = x*y + z at the destination point of flat index i (1-based,
\* C order), straight from the destination axes.
TestExpected(i) ==
  LET nx == Len(TestDstAxes[1].data)
      ny == Len(TestDstAxes[2].data)
      nz == Len(TestDstAxes[3].data)
      x  == TestDstAxes[1].data[((i - 1) \div (ny * nz)) + 1]
      y  == TestDstAxes[2].data[(((i - 1) \div nz) % ny) + 1]
      z  == TestDstAxes[3].data[((i - 1) % nz) + 1]
  IN  RAdd(RMul(x, y), z)

\* C5: on the grids and the field of test(), create, computeWeights(10,
\* 1e-3, no periodic axis) and apply leave every destination point equal to
\* f at the point's own coordinates, and the number of valid destination
\* points equals the number of destination points.
C5_TestScenarioIsExact ==
  call.pc = "done" =>
     /\ user.error = RInt(0)
     /\ Len(user.dst_data.data) = 24
     /\ \A i \in 1..Len(user.dst_data.data) : user.dst_data.data[i] = TestExpected(i)
     /\ user.nvalid = user.ndstpts
     /\ user.ndstpts = 24

\* The scenario ran through with the background of test(): the first
\* destination point (1.5, 15, 120) holds 142.5.
C5_Witness ==
  /\ call.pc = "done"
  /\ user.bg = RInt(-1)
  /\ user.dst_data.data[1] = <<285, 2>>
  /\ user.dst_data.data[24] = <<535, 2>>

-----------------------------------------------------------------------------
(* Regrid.__del__, lines 235-254, and specification SpecDel: the           *)
(* constructor on lists of axes, every native call free to fail, followed  *)
(* by the destruction of the object.  Python runs __del__ on an object     *)
(* whose __init__ raised as well, and drops an exception raised inside it. *)

\* One nccf_free_* call and the catchError after it.  d carries the handle
\* ids handed to the native free calls so far; the call is the next in
\* order, and failAt numbers the call that returns a status other than 0.
\* A call that returns 0 releases the handle if the id names one; what the
\* library does with an id that names none is not part of the source, and
\* both outcomes (status 0, status other than 0) are drawn through failAt.
FreeCall(d, kind, id, failAt) ==
  IF d.err # "none" THEN d
  ELSE
    LET k == Len(d.attempts) + 1
        status == IF failAt = k THEN 1 ELSE 0
    IN  [err      |-> catchError(status),
         lib      |-> IF status = 0 THEN Free(d.lib, <<kind, id>>) ELSE d.lib,
         attempts |-> Append(d.attempts, <<kind, id>>)]

\* Lines 248-254, from coordinate i (0-based) on.  self.src_coordids is
\* bound by line 189 only: a constructor that raised before leaves the
\* object without the attribute.
RECURSIVE FreeCoords(_, _, _, _)
FreeCoords(s, d, i, failAt) ==
  IF d.err # "none" \/ i >= s.ndims THEN d
  ELSE IF ~s.has_coordids THEN [d EXCEPT !.err = "AttributeError"]
  ELSE
    LET d1 == FreeCall(d, "coord", s.src_coordids[i + 1], failAt)
        d2 == FreeCall(d1, "coord", s.dst_coordids[i + 1], failAt)
    IN  FreeCoords(s, d2, i + 1, failAt)

\* __del__(self), lines 235-254: no id is compared with -1 before it is
\* handed to the library.
RegridDel(s, l, failAt) ==
  LET d0 == [err |-> "none", lib |-> l, attempts |-> <<>>]
      d1 == FreeCall(d0, "regrid", s.regridid, failAt)
      d2 == FreeCall(d1, "grid", s.src_gridid, failAt)
      d3 == FreeCall(d2, "grid", s.dst_gridid, failAt)
  IN  FreeCoords(s, d3, 0, failAt)

\* Axes of every length up to MaxLen.
AxisDescriptors == {ArrayOfShape(<<e>>) : e \in 1..MaxLen}

InitD ==
  /\ user \in {[given_src |-> a, given_dst |-> b, src_grid |-> a, dst_grid |-> b] :
                 a \in SeqsOf(AxisDescriptors, 0, MaxN),
                 b \in SeqsOf(AxisDescriptors, 0, MaxN)}
  /\ self = SelfNew
  /\ lib = LibNew
  /\ call = NoCall
  /\ tp = Unused
  /\ mc = Unused

\* The last reference to the object is dropped.
Destroy ==
  /\ call.op = "Regrid"
  /\ \E failAt \in 0..(2 * self.ndims + 3) :
       LET r == RegridDel(self, lib, failAt)
       IN  /\ lib' = r.lib
           /\ call' = [op |-> "__del__", err |-> r.err, init_err |-> call.err,
                       owned |-> lib.live, attempts |-> r.attempts]
  /\ UNCHANGED <<tp, mc, user, self>>

NextD ==
  \/ Construct
  \/ Destroy

SpecDel == InitD /\ [][NextD]_vars

\* How many of the free calls were handed handle h.
TimesFreed(attempts, h) ==
  Cardinality({k \in 1..Len(attempts) : attempts[k] = h})

\* C11: when the operator is destroyed, every native handle it owns (the
\* coordinate, grid and regrid handles the constructor defined, also a
\* constructor that raised after defining only some) is released exactly
\* once, and no free call is made on a handle that was never defined.
C11_OwnedHandlesReleasedOnce ==
  call.op = "__del__" =>
     /\ \A h \in call.owned : TimesFreed(call.attempts, h) = 1
     /\ \A k \in 1..Len(call.attempts) : call.attempts[k] \in call.owned
     /\ lib.live = {}

=============================================================================
